---------------------------- MODULE Spec2Model ----------------------------
(***************************************************************************)
(* A model of holoviews/util/parser.py: the keyword-list helpers of Parser *)
(* (collect_tokens, todict), the options-line parser OptsSpec and the      *)
(* compositor-line parser CompositorSpec.                                  *)
(*                                                                         *)
(* Text is modelled as a sequence of lexical symbols.  A punctuation or    *)
(* whitespace character is a symbol of its own; an identifier, a number or *)
(* a quoted literal is one symbol.  Python's string operations used by the *)
(* code (indexing the first/last character for commas, `in`, replace of    *)
(* two-character punctuation pairs, split('.'), join, concatenation) act   *)
(* on punctuation only, so they act on symbols exactly as on characters.   *)
(*                                                                         *)
(* A dictionary is a function from keys to values; {} is <<>>.             *)
(***************************************************************************)
EXTENDS Integers, Sequences, FiniteSets, TLC

VARIABLES
    op,                     \* the operation the last call ran ("none" at start)
    arg,                    \* its argument
    ns,                     \* the caller's namespace dictionary, as the call left it
    ret,                    \* the value returned (<<>> when the call raised)
    raised,                 \* "none", or the exception class the call raised
    warnings,               \* parsewarning.warning messages of the last call
    namespace,              \* Parser.namespace, the class-level default namespace
    abort_on_eval_failure   \* Parser.abort_on_eval_failure

vars == <<op, arg, ns, ret, raised, warnings, namespace, abort_on_eval_failure>>

-----------------------------------------------------------------------------
(* Generic helpers on sequences and dictionaries.                          *)

Range(s) == {s[i] : i \in 1..Len(s)}

Has(s, c) == \E i \in 1..Len(s) : s[i] = c

Count(s, c) == Cardinality({i \in 1..Len(s) : s[i] = c})

Last(s) == s[Len(s)]

Front(s) == SubSeq(s, 1, Len(s) - 1)

\* dict.update / dict(a, **b): the bindings of b win
Update(a, b) == [k \in (DOMAIN a) \cup (DOMAIN b) |->
                    IF k \in DOMAIN b THEN b[k] ELSE a[k]]

Get(d, k, default) == IF k \in DOMAIN d THEN d[k] ELSE default

\* s, then the members of t that s lacks, in t's order
RECURSIVE AppendNew(_, _)
AppendNew(s, t) ==
    IF t = <<>> THEN s
    ELSE AppendNew(IF Has(s, Head(t)) THEN s ELSE Append(s, Head(t)), Tail(t))

RECURSIVE Concat(_)
Concat(ss) == IF ss = <<>> THEN <<>> ELSE Head(ss) \o Concat(Tail(ss))

\* sep.join(ss)
RECURSIVE Join(_, _)
Join(sep, ss) ==
    IF ss = <<>> THEN <<>>
    ELSE IF Len(ss) = 1 THEN ss[1]
    ELSE ss[1] \o sep \o Join(sep, Tail(ss))

\* All sequences over S of length 0..n
RECURSIVE SeqUpTo(_, _)
SeqUpTo(S, n) ==
    IF n = 0 THEN {<<>>}
    ELSE LET shorter == SeqUpTo(S, n - 1)
         IN  shorter \cup {Append(s, x) : s \in {t \in shorter : Len(t) = n - 1}, x \in S}

-----------------------------------------------------------------------------
(* Lexical classes of symbols.                                             *)

Punctuation == {" ", ",", "=", "(", ")", "[", "]", "{", "}", ".", ":", "@"}

Numerals == {"0", "1", "2", "3"}

QuotedLiterals == {"'r'", "'b'"}

IsWord(c) == c \notin Punctuation

IsIdentifier(c) == IsWord(c) /\ c \notin Numerals /\ c \notin QuotedLiterals

-----------------------------------------------------------------------------
(* The parse tree of one options block, as pyparsing's nestedExpr builds   *)
(* it: a list of elements, each a token (a string) or a nested list.       *)

Tok(text) == [k |-> "tok", v |-> text]

Lst(items) == [k |-> "list", v |-> items]

\* First index >= i of text that ends the word starting at i
RECURSIVE WordEnd(_, _, _, _)
WordEnd(text, i, opener, closer) ==
    IF i > Len(text) \/ text[i] \in {" ", opener, closer} THEN i
    ELSE WordEnd(text, i + 1, opener, closer)

\* The elements from index i up to the closer of the current nesting level
\* (or the end of the text): [items, next]
RECURSIVE nestedItems(_, _, _, _)
nestedItems(text, i, opener, closer) ==
    IF i > Len(text) THEN [items |-> <<>>, next |-> i]
    ELSE IF text[i] = " " THEN nestedItems(text, i + 1, opener, closer)
    ELSE IF text[i] = closer THEN [items |-> <<>>, next |-> i + 1]
    ELSE IF text[i] = opener THEN
        LET sub  == nestedItems(text, i + 1, opener, closer)
            rest == nestedItems(text, sub.next, opener, closer)
        IN  [items |-> <<Lst(sub.items)>> \o rest.items, next |-> rest.next]
    ELSE
        LET j    == WordEnd(text, i, opener, closer)
            rest == nestedItems(text, j, opener, closer)
        IN  [items |-> <<Tok(SubSeq(text, i, j - 1))>> \o rest.items,
             next |-> rest.next]

\* pp.nestedExpr(opener, closer) applied to the text between the outer
\* delimiters: whitespace separates tokens, the delimiters nest
nestedExpr(text, opener, closer) == nestedItems(text, 1, opener, closer).items

Opener(mode) == IF mode = "parens" THEN "(" ELSE "["

Closer(mode) == IF mode = "parens" THEN ")" ELSE "]"

-----------------------------------------------------------------------------
(* Parser._strip_commas, Parser.recurse_token, Parser.collect_tokens       *)

_strip_commas(kw) ==
    LET kw1 == IF Last(kw) = "," THEN Front(kw) ELSE kw
    IN  IF Head(kw1) = "," THEN Tail(kw1) ELSE kw1

\* inner % s
Inner(mode, s) == <<Opener(mode)>> \o s \o <<Closer(mode)>>

RECURSIVE recurse_token(_, _)
recurse_token(token, mode) ==
    LET new_tok(tok) ==
            Concat([i \in 1..Len(tok) |->
                      IF tok[i].k = "list" THEN recurse_token(tok[i].v, mode)
                      ELSE tok[i].v])
        recursed ==
            [i \in 1..Len(token) |->
                IF token[i].k = "list" THEN Inner(mode, new_tok(token[i].v))
                ELSE token[i].v]
    IN  Inner(mode, Concat(recursed))

\* [tokens, raised]: raised is "IndexError" when tokens[-1] is read on an
\* empty list, or kw[-1] on an empty token
RECURSIVE collect_loop(_, _, _)
collect_loop(parseresult, mode, tokens) ==
    IF parseresult = <<>> THEN [tokens |-> tokens, raised |-> "none"]
    ELSE LET token == Head(parseresult)
         IN  IF token.k = "list" THEN
                 IF tokens = <<>> THEN [tokens |-> tokens, raised |-> "IndexError"]
                 ELSE collect_loop(Tail(parseresult), mode,
                        [tokens EXCEPT ![Len(tokens)] =
                            @ \o recurse_token(token.v, mode)])
             ELSE IF token.v = <<",">> THEN
                 collect_loop(Tail(parseresult), mode, tokens)
             ELSE IF token.v = <<>> THEN
                 \* kw[-1] in _strip_commas, on an empty string
                 [tokens |-> tokens, raised |-> "IndexError"]
             ELSE collect_loop(Tail(parseresult), mode,
                        Append(tokens, _strip_commas(token.v)))

collect_tokens(parseresult, mode) == collect_loop(parseresult, mode, <<>>)


-----------------------------------------------------------------------------
(* Python's eval('dict(%s)' % keyword, globals), for keywords built from   *)
(* literals, names, and parenthesised or bracketed sequences of them.      *)

BuiltinNames == {"None", "True", "False"}

Opening == {"(", "[", "{"}

Closing == {")", "]", "}"}

\* Split text at the commas outside every bracket: from index i, with the
\* bracket depth so far, the piece being read and the pieces read
RECURSIVE SplitTop(_, _, _, _, _)
SplitTop(text, i, depth, cur, acc) ==
    IF i > Len(text) THEN Append(acc, cur)
    ELSE IF text[i] = "," /\ depth = 0
         THEN SplitTop(text, i + 1, depth, <<>>, Append(acc, cur))
    ELSE SplitTop(text, i + 1,
                  IF text[i] \in Opening THEN depth + 1
                  ELSE IF text[i] \in Closing THEN depth - 1 ELSE depth,
                  Append(cur, text[i]), acc)

\* The arguments of a call or the elements of a display: a trailing comma
\* is allowed after at least one element
Elements(text) ==
    LET parts == SplitTop(text, 1, 0, <<>>, <<>>)
    IN  IF Len(parts) >= 2 /\ Last(parts) = <<>> THEN Front(parts) ELSE parts

\* Index of the bracket closing the one at index 1 (0 if there is none)
RECURSIVE MatchClose(_, _, _)
MatchClose(text, i, depth) ==
    IF i > Len(text) THEN 0
    ELSE IF text[i] \in Opening THEN MatchClose(text, i + 1, depth + 1)
    ELSE IF text[i] \in Closing
         THEN IF depth = 1 THEN i ELSE MatchClose(text, i + 1, depth - 1)
    ELSE MatchClose(text, i + 1, depth)

RECURSIVE ConcatStr(_)
ConcatStr(ws) == IF ws = <<>> THEN "" ELSE Head(ws) \o ConcatStr(Tail(ws))

IsNameRun(text) ==
    /\ text # <<>>
    /\ IsIdentifier(text[1])
    /\ \A i \in 1..Len(text) : IsIdentifier(text[i]) \/ text[i] \in Numerals

Failed == [ok |-> FALSE, v |-> <<>>]

\* The value of an expression, written back as text with every name
\* replaced by the value bound to it
RECURSIVE EvalExpr(_, _)
EvalExpr(text, globals) ==
    IF text = <<>> THEN Failed
    ELSE IF \A i \in 1..Len(text) : text[i] \in Numerals
         THEN [ok |-> TRUE, v |-> text]
    ELSE IF \A i \in 1..Len(text) : text[i] \in QuotedLiterals
         THEN [ok |-> TRUE, v |-> text]
    ELSE IF IsNameRun(text) THEN
         LET name == ConcatStr(text)
         IN  IF name \in BuiltinNames THEN [ok |-> TRUE, v |-> <<name>>]
             ELSE IF name \in DOMAIN globals THEN [ok |-> TRUE, v |-> globals[name]]
             ELSE Failed
    ELSE IF /\ text[1] \in {"(", "["}
            /\ MatchClose(text, 1, 0) = Len(text)
            /\ Last(text) = (IF text[1] = "(" THEN ")" ELSE "]")
         THEN
         LET Values(elems) == [i \in 1..Len(elems) |-> EvalExpr(elems[i], globals)]
             Display(inside, vals) ==
                 IF inside = <<>> THEN [ok |-> TRUE, v |-> text]
                 ELSE IF \E i \in 1..Len(vals) : ~vals[i].ok THEN Failed
                 ELSE IF text[1] = "(" /\ Len(vals) = 1 /\ Last(inside) # ","
                      THEN vals[1]
                 ELSE [ok |-> TRUE,
                       v |-> <<text[1]>>
                             \o Join(<<",">>, [i \in 1..Len(vals) |-> vals[i].v])
                             \o <<Last(text)>>]
         IN  Display(SubSeq(text, 2, Len(text) - 1),
                     Values(Elements(SubSeq(text, 2, Len(text) - 1))))
    ELSE Failed

\* Index of the first "=" of text (0 if there is none)
RECURSIVE FirstEq(_, _)
FirstEq(text, i) ==
    IF i > Len(text) THEN 0
    ELSE IF text[i] = "=" THEN i ELSE FirstEq(text, i + 1)

\* One argument name=expr of the call: [ok, key, v]
EvalArg(text, globals) ==
    LET Bind(p, key, val) ==
            IF p = 0 \/ ~IsNameRun(key) \/ ~val.ok
            THEN [ok |-> FALSE, key |-> <<>>, v |-> <<>>]
            ELSE [ok |-> TRUE, key |-> <<ConcatStr(key)>>, v |-> val.v]
        At(p) == Bind(p, SubSeq(text, 1, p - 1),
                      EvalExpr(SubSeq(text, p + 1, Len(text)), globals))
    IN  At(FirstEq(text, 1))

\* eval('dict(%s)' % keyword, globals): [ok, pairs, globals]; eval leaves
\* a __builtins__ entry in the globals dictionary it is given
EvalDict(keyword, globals) ==
    LET Arguments(elems) == [i \in 1..Len(elems) |-> EvalArg(elems[i], globals)]
        Good(args) ==
            /\ \A i \in 1..Len(args) : args[i].ok
            /\ \A i, j \in 1..Len(args) : args[i].key = args[j].key => i = j
        Dict(args, good) ==
            [ok      |-> good,
             pairs   |-> IF good THEN [k \in {args[i].key : i \in 1..Len(args)} |->
                                         args[CHOOSE i \in 1..Len(args) : args[i].key = k].v]
                         ELSE <<>>,
             order   |-> IF good THEN [i \in 1..Len(args) |-> args[i].key] ELSE <<>>,
             globals |-> Update(globals, [k \in {"__builtins__"} |-> <<"<builtins>">>])]
        Call(args) == Dict(args, Good(args))
    IN  Call(Arguments(Elements(keyword)))

-----------------------------------------------------------------------------
(* Parser.todict                                                           *)

\* Length of the longest prefix of tokens whose members all have, or all
\* lack, "=" as the first one does: one group of itertools.groupby
RECURSIVE RunLen(_, _)
RunLen(tokens, val) ==
    IF tokens = <<>> \/ Has(Head(tokens), "=") # val THEN 0
    ELSE 1 + RunLen(Tail(tokens), val)

\* Lines 90-100 with the run joined and appended without a separator,
\* whatever its tokens hold
RECURSIVE group_loop_no_joiner(_, _)
group_loop_no_joiner(tokens, grouped) ==
    IF tokens = <<>> THEN [grouped |-> grouped, raised |-> "none"]
    ELSE LET val      == Has(Head(tokens), "=")
             n        == RunLen(tokens, val)
             elements == SubSeq(tokens, 1, n)
             rest     == SubSeq(tokens, n + 1, Len(tokens))
         IN  IF val THEN group_loop_no_joiner(rest, grouped \o elements)
             ELSE IF grouped = <<>> THEN [grouped |-> grouped, raised |-> "IndexError"]
             ELSE group_loop_no_joiner(rest,
                    [grouped EXCEPT ![Len(grouped)] = @ \o Join(<<>>, elements)])

\* Lines 90-100: [grouped, raised]; grouped[-1] on an empty list raises
RECURSIVE group_loop(_, _)
group_loop(tokens, grouped) ==
    IF tokens = <<>> THEN [grouped |-> grouped, raised |-> "none"]
    ELSE LET val      == Has(Head(tokens), "=")
             n        == RunLen(tokens, val)
             elements == SubSeq(tokens, 1, n)
             rest     == SubSeq(tokens, n + 1, Len(tokens))
             joiner   == IF \E i \in 1..n : Has(elements[i], ")") \/ Has(elements[i], "}")
                         THEN <<",">> ELSE <<>>
         IN  IF val THEN group_loop(rest, grouped \o elements)
             ELSE IF grouped = <<>> THEN [grouped |-> grouped, raised |-> "IndexError"]
             ELSE group_loop(rest,
                    [grouped EXCEPT ![Len(grouped)] =
                        @ \o joiner \o Join(joiner, elements)])

\* str.replace(fst, snd) for a two-symbol fst: leftmost, non-overlapping
RECURSIVE Replace(_, _, _)
Replace(text, fst, snd) ==
    IF Len(text) < 2 THEN text
    ELSE IF SubSeq(text, 1, 2) = fst
         THEN snd \o Replace(SubSeq(text, 3, Len(text)), fst, snd)
    ELSE <<Head(text)>> \o Replace(Tail(text), fst, snd)

\* Lines 105-107, in the order the loop applies them
Repairs ==
    << << <<"(", ",">>, <<"(">> >>,  << <<"{", ",">>, <<"{">> >>,
       << <<"=", ",">>, <<"=">> >>,  << <<",", ":">>, <<":">> >>,
       << <<":", ",">>, <<":">> >>,  << <<",", ",">>, <<",">> >>,
       << <<",", ".">>, <<".">> >> >>

RECURSIVE Repair(_, _)
Repair(keyword, i) ==
    IF i > Len(Repairs) THEN keyword
    ELSE Repair(Replace(keyword, Repairs[i][1], Repairs[i][2]), i + 1)

Warning(text, what) == [msg |-> text, about |-> what]

\* dict(cls.namespace, **ns): a new dictionary, which is neither the class
\* namespace object nor the caller's
BuildGlobalsInPlace(cls_namespace, caller_ns) ==
    [obj |-> "class", d |-> Update(cls_namespace, caller_ns)]

BuildGlobals(cls_namespace, caller_ns) ==
    [obj |-> "fresh", d |-> Update(cls_namespace, caller_ns)]

\* What the failure of one keyword does (lines 112-117), given the
\* class flag: "raise" or "warn"
OnEvalFailureAlwaysWarn(abort) == "warn"

OnEvalFailure(abort) == IF abort THEN "raise" ELSE "warn"

\* Lines 102-117 from keyword i on.  st = [kwargs, order, warnings, raised,
\* namespace, ns]: namespace and ns are the two dictionary objects the
\* call can reach
RECURSIVE eval_loop(_, _, _, _)
eval_loop(grouped, i, abort, st) ==
    IF i > Len(grouped) THEN st
    ELSE LET Step(keyword, e, st1) ==
                 IF e.ok
                 THEN eval_loop(grouped, i + 1, abort,
                                [st1 EXCEPT !.kwargs = Update(@, e.pairs),
                                            !.order = AppendNew(@, e.order)])
                 ELSE IF OnEvalFailure(abort) = "raise"
                 THEN [st1 EXCEPT !.kwargs = <<>>, !.order = <<>>,
                                  !.raised = "SyntaxError"]
                 ELSE eval_loop(grouped, i + 1, abort,
                        [st1 EXCEPT !.warnings = Append(@,
                            Warning("Ignoring keyword pair that fails to evaluate",
                                    keyword))])
             Evaluated(keyword, g, e) ==
                 Step(keyword, e,
                      [st EXCEPT
                          !.namespace = IF g.obj = "class" THEN e.globals ELSE @,
                          !.ns        = IF g.obj = "caller" THEN e.globals ELSE @])
             Eval(keyword, g) == Evaluated(keyword, g, EvalDict(keyword, g.d))
         IN  Eval(Repair(grouped[i], 1), BuildGlobals(st.namespace, st.ns))

\* [kwargs, order, warnings, raised, namespace, ns]: order lists the keys of
\* kwargs as the dictionary iterates them (by first insertion)
todict(parseresult, mode, caller_ns, cls_namespace, abort) ==
    LET st0 == [kwargs |-> <<>>, order |-> <<>>, warnings |-> <<>>,
                raised |-> "none",
                namespace |-> cls_namespace, ns |-> caller_ns]
        Grouped(groups) ==
            IF groups.raised # "none" THEN [st0 EXCEPT !.raised = groups.raised]
            ELSE eval_loop(groups.grouped, 1, abort, st0)
        Collected(tokens) ==
            IF tokens.raised # "none" THEN [st0 EXCEPT !.raised = tokens.raised]
            ELSE Grouped(group_loop(tokens.tokens, <<>>))
    IN  Collected(collect_tokens(parseresult, mode))

-----------------------------------------------------------------------------
(* A specification line.  The line is held as the sequence of its pieces:  *)
(* runs of whitespace ("ws") and segments ("seg"), a segment being a path  *)
(* text followed by the option blocks written after it.  Whether the       *)
(* grammar matches a segment is decided by the grammar below; a segment it *)
(* does not match is text no spec group can start in.                      *)

Block(text) == [present |-> TRUE, text |-> text]

NoBlock == [present |-> FALSE, text |-> <<>>]

Seg(path, norm, plot, style) ==
    [kind |-> "seg", pathspec |-> path, norm |-> norm, plot |-> plot, style |-> style]

Ws == [kind |-> "ws", pathspec |-> <<>>, norm |-> NoBlock, plot |-> NoBlock,
       style |-> NoBlock]

\* Word symbols of the model that begin with one of ascii_uppercase
Capitalised == {"A", "A1", "B1", "C1", "Curve", "Image", "GridImage", "Foo"}

\* Compositor.definitions is empty when the class body runs
compositor_ops == {}

\* pp.Combine(pp.Word(ascii_uppercase, exact=1) + pp.Word(pp.alphanums+'._'))
dotted_path(text) ==
    /\ text # <<>>
    /\ text[1] \in Capitalised
    /\ \A i \in 1..Len(text) : IsWord(text[i]) \/ text[i] = "."
    /\ Len(ConcatStr(text)) >= 2

pathspec(text) == dotted_path(text) \/ text \in compositor_ops

\* spec_group: a path specification, then the optional blocks
spec_group(item) == item.kind = "seg" /\ pathspec(item.pathspec)

\* A piece of a compositor line: mode op (spec) value [settings]
CSeg(mode, operation, spec, value, settings) ==
    [kind |-> "seg", mode |-> mode, op |-> operation, spec |-> spec,
     value |-> value, op_settings |-> settings]

CWs == [kind |-> "ws", mode |-> <<>>, op |-> <<>>, spec |-> <<>>, value |-> <<>>,
        op_settings |-> NoBlock]

\* A word of CompositorSpec: pp.Word(pp.alphas+pp.nums+'_')
GrammarWord(text) == Len(text) = 1 /\ IsWord(text[1])

\* One group of compositor_spec: mode op (spec) value [settings]
compositor_group(item) ==
    /\ item.kind = "seg"
    /\ GrammarWord(item.mode)
    /\ GrammarWord(item.op)
    /\ GrammarWord(item.value)

\* Whether the repeated element of the grammar matches the piece:
\* opts_spec = OneOrMore(spec_group), compositor_spec = OneOrMore(Group(...))
Matches(grammar, item) ==
    IF grammar = "opts_spec" THEN spec_group(item) ELSE compositor_group(item)

\* One past the last piece of the OneOrMore match being read at i, when
\* `last` is the last piece matched so far
RECURSIVE RunEnd(_, _, _, _)
RunEnd(grammar, line, i, last) ==
    IF i > Len(line) THEN last + 1
    ELSE IF line[i].kind = "ws" THEN RunEnd(grammar, line, i + 1, last)
    ELSE IF Matches(grammar, line[i]) THEN RunEnd(grammar, line, i + 1, i)
    ELSE last + 1

\* grammar.scanString(line) from piece i: the matches, each [s, e] with e
\* one past its end
RECURSIVE scanString(_, _, _)
scanString(grammar, line, i) ==
    IF i > Len(line) THEN <<>>
    ELSE IF line[i].kind = "seg" /\ Matches(grammar, line[i])
         THEN LET e == RunEnd(grammar, line, i + 1, i)
              IN  <<[s |-> i, e |-> e]>> \o scanString(grammar, line, e)
    ELSE scanString(grammar, line, i + 1)

\* str.strip()
RECURSIVE LStrip(_)
LStrip(line) ==
    IF line # <<>> /\ Head(line).kind = "ws" THEN LStrip(Tail(line)) ELSE line

RECURSIVE RStrip(_)
RStrip(line) ==
    IF line # <<>> /\ Last(line).kind = "ws" THEN RStrip(Front(line)) ELSE line

Strip(line) == RStrip(LStrip(line))

IsSeg(item) == item.kind = "seg"

\* grammar.parseString(line): the match at the start of the line (leading
\* whitespace skipped), or ParseException when there is none there
parseString(grammar, line) ==
    LET rest == LStrip(line)
    IN  IF rest = <<>> \/ ~Matches(grammar, Head(rest))
        THEN [raised |-> "ParseException", groups |-> <<>>]
        ELSE [raised |-> "none",
              groups |-> SelectSeq(SubSeq(rest, 1, RunEnd(grammar, rest, 2, 1) - 1),
                                   IsSeg)]

\* Lines 330-337 and 414-421: "SyntaxError" or "none"
CheckWholeLine(grammar, line) ==
    LET Check(parses) ==
            IF Len(parses) # 1 THEN "SyntaxError"
            ELSE LET e         == parses[1].e
                     processed == SubSeq(line, 1, e - 1)
                 IN  IF Strip(processed) # Strip(line) THEN "SyntaxError" ELSE "none"
    IN  Check(scanString(grammar, line, 1))

-----------------------------------------------------------------------------
(* OptsSpec                                                                *)

T(word) == <<word>>

aliases ==
    (T("horizontal_spacing") :> T("hspace")) @@
    (T("vertical_spacing")   :> T("vspace")) @@
    (T("figure_alpha")       :> <<" ", " ", " ", " ", "fig_alpha">>) @@
    (T("figure_bounds")      :> T("fig_bounds")) @@
    (T("figure_inches")      :> T("fig_inches")) @@
    (T("figure_latex")       :> T("fig_latex")) @@
    (T("figure_rcparams")    :> T("fig_rcparams")) @@
    (T("figure_size")        :> T("fig_size")) @@
    (T("show_xaxis")         :> T("xaxis")) @@
    (T("show_yaxis")         :> T("yaxis"))

deprecations == << <<"GridImage", "Image">> >>

PyTrue == <<"True">>

PyFalse == <<"False">>

PyBool(b) == IF b THEN PyTrue ELSE PyFalse

NormOptions == << <<"+", "framewise">>, <<"-", "framewise">>,
                  <<"+", "axiswise">>,  <<"-", "axiswise">> >>

\* opts.count(x) and x in opts, for a string x and a list of elements
CountTok(opts, x) == Cardinality({i \in 1..Len(opts) : opts[i] = Tok(x)})

InOpts(opts, x) == CountTok(opts, x) > 0

\* Lines 228-256 without the check of lines 230-233
normalization_no_repeat_check(opts) ==
    LET options  == NormOptions
        excluded == << <<options[1], options[2]>>, <<options[3], options[4]>> >>
    IN  IF ~ \A i \in 1..Len(opts) : opts[i] \in {Tok(o) : o \in Range(options)}
        THEN [none |-> FALSE, raised |-> "SyntaxError", v |-> <<>>]
        ELSE IF \E p \in 1..Len(excluded) :
                    InOpts(opts, excluded[p][1]) /\ InOpts(opts, excluded[p][2])
        THEN [none |-> FALSE, raised |-> "SyntaxError", v |-> <<>>]
        ELSE [none |-> FALSE, raised |-> "none",
              v |-> (T("axiswise") :> PyBool(InOpts(opts, options[3]))) @@
                    (T("framewise") :> PyBool(InOpts(opts, options[1])))]

\* Lines 228-256, for a non-empty list opts: [none, raised, v]
normalization(opts) ==
    LET options  == NormOptions
        excluded == << <<options[1], options[2]>>, <<options[3], options[4]>> >>
        single   == Len(opts) = 1
    IN  IF \E i \in 1..Len(options) : CountTok(opts, options[i]) > 1
        THEN [none |-> FALSE, raised |-> "SyntaxError", v |-> <<>>]
        ELSE IF ~ \A i \in 1..Len(opts) : opts[i] \in {Tok(o) : o \in Range(options)}
        THEN [none |-> FALSE, raised |-> "SyntaxError", v |-> <<>>]
        ELSE IF \E p \in 1..Len(excluded) :
                    InOpts(opts, excluded[p][1]) /\ InOpts(opts, excluded[p][2])
        THEN [none |-> FALSE, raised |-> "SyntaxError", v |-> <<>>]
        ELSE LET flags ==
                   IF single /\ Last(opts[1].v) = "framewise"
                   THEN [axiswise  |-> FALSE,
                         framewise |-> InOpts(opts, options[1])]
                   ELSE IF single /\ Last(opts[1].v) = "axiswise"
                   THEN [framewise |-> FALSE,
                         axiswise  |-> InOpts(opts, options[3])]
                   ELSE [axiswise  |-> InOpts(opts, options[3]),
                         framewise |-> InOpts(opts, options[1])]
             IN  [none |-> FALSE, raised |-> "none",
                  v |-> (T("axiswise") :> PyBool(flags.axiswise)) @@
                        (T("framewise") :> PyBool(flags.framewise))]

\* [none, raised, v]: none is TRUE when the method returns None
process_normalization(parse_group) ==
    IF ~parse_group.norm.present
    THEN [none |-> TRUE, raised |-> "none", v |-> <<>>]
    ELSE LET opts == nestedExpr(parse_group.norm.text, "{", "}")
         IN  IF opts = <<>> THEN [none |-> TRUE, raised |-> "none", v |-> <<>>]
             ELSE normalization(opts)

NoGroup == Seg(<<>>, NoBlock, NoBlock, NoBlock)

has_options(group) ==
    group.norm.present \/ group.plot.present \/ group.style.present

\* The pairs the generator yields, in order: [pathspecs, group]
RECURSIVE group_paths_loop(_, _)
group_paths_loop(line_parse_result, active_pathspecs) ==
    IF line_parse_result = <<>>
    THEN IF active_pathspecs # {}
         THEN <<[pathspecs |-> active_pathspecs, group |-> NoGroup]>>
         ELSE <<>>
    ELSE LET group  == Head(line_parse_result)
             active == active_pathspecs \cup {group.pathspec}
         IN  IF has_options(group)
             THEN <<[pathspecs |-> active, group |-> group]>>
                  \o group_paths_loop(Tail(line_parse_result), {})
             ELSE group_paths_loop(Tail(line_parse_result), active)

\* The generator without `active_pathspecs = set()` after the yield
RECURSIVE group_paths_loop_no_reset(_, _)
group_paths_loop_no_reset(line_parse_result, active_pathspecs) ==
    IF line_parse_result = <<>> THEN <<>>
    ELSE LET group  == Head(line_parse_result)
             active == active_pathspecs \cup {group.pathspec}
             rest   == group_paths_loop_no_reset(Tail(line_parse_result), active)
         IN  IF has_options(group)
             THEN <<[pathspecs |-> active, group |-> group]>> \o rest
             ELSE IF Tail(line_parse_result) = <<>> \/ rest = <<>>
             THEN <<[pathspecs |-> active, group |-> NoGroup]>>
             ELSE rest

_group_paths_without_options_no_reset(line_parse_result) ==
    group_paths_loop_no_reset(line_parse_result, {})

_group_paths_without_options(line_parse_result) ==
    group_paths_loop(line_parse_result, {})

\* str.split('.')
RECURSIVE SplitDots(_, _, _)
SplitDots(text, cur, acc) ==
    IF text = <<>> THEN Append(acc, cur)
    ELSE IF Head(text) = "." THEN SplitDots(Tail(text), <<>>, Append(acc, cur))
    ELSE SplitDots(Tail(text), Append(cur, Head(text)), acc)

\* Lines 317-321 from entry i of the table on: [path, warnings]
RECURSIVE deprecations_loop(_, _, _)
deprecations_loop(path, split, i) ==
    IF i > Len(deprecations) THEN [path |-> path, warnings |-> <<>>]
    ELSE LET old == deprecations[i][1]
             new == deprecations[i][2]
         IN  IF split[1] = T(old)
             THEN [path |-> Join(<<".">>, <<T(new)>> \o Tail(split)),
                   warnings |-> <<Warning("Element deprecated", T(old) \o T(new))>>]
             ELSE deprecations_loop(path, split, i + 1)

\* apply_deprecations with `old in split` for `split[0] == old`
apply_deprecations_any_component(path) ==
    LET split == SplitDots(path, <<>>, <<>>)
        old   == deprecations[1][1]
        new   == deprecations[1][2]
    IN  IF Has(split, T(old))
        THEN [path |-> Join(<<".">>, <<T(new)>> \o Tail(split)),
              warnings |-> <<Warning("Element deprecated", T(old) \o T(new))>>]
        ELSE [path |-> path, warnings |-> <<>>]

apply_deprecations(path) == deprecations_loop(path, SplitDots(path, <<>>, <<>>), 1)

-----------------------------------------------------------------------------
(* OptsSpec.parse.  Dictionaries that the code shares or updates in place  *)
(* are objects of a heap: a reference is an index of the sequence `heap`.  *)

Categories == <<"norm", "plot", "style">>

\* {cls.aliases.get(k,k): v for k,v in opts.items()}, from key i of the
\* iteration order on
RECURSIVE alias_keys(_, _, _, _)
alias_keys(kwargs, order, i, acc) ==
    IF i > Len(order) THEN acc
    ELSE LET k == order[i]
         IN  alias_keys(kwargs, order, i + 1,
                        Update(acc, Get(aliases, k, k) :> kwargs[k]))

\* _merge_options over the option types of new_opts from index i on;
\* merged and new_opts map an option type to a reference
RECURSIVE merge_loop_shallow(_, _, _, _)
merge_loop_shallow(merged, new_opts, heap, i) ==
    IF i > Len(Categories) THEN [merged |-> merged, heap |-> heap]
    ELSE LET option_type == Categories[i]
         IN  IF option_type \notin DOMAIN new_opts
             THEN merge_loop_shallow(merged, new_opts, heap, i + 1)
             ELSE merge_loop_shallow(Update(merged, option_type :> new_opts[option_type]),
                                     new_opts, heap, i + 1)

RECURSIVE merge_loop_shared(_, _, _, _)
merge_loop_shared(merged, new_opts, heap, i) ==
    IF i > Len(Categories) THEN [merged |-> merged, heap |-> heap]
    ELSE LET option_type == Categories[i]
         IN  IF option_type \notin DOMAIN new_opts
             THEN merge_loop_shared(merged, new_opts, heap, i + 1)
             ELSE IF option_type \notin DOMAIN merged
             THEN merge_loop_shared(Update(merged, option_type :> new_opts[option_type]),
                                    new_opts, heap, i + 1)
             ELSE merge_loop_shared(merged, new_opts,
                    [heap EXCEPT ![merged[option_type]] =
                        Update(@, heap[new_opts[option_type]])], i + 1)

RECURSIVE merge_loop(_, _, _, _)
merge_loop(merged, new_opts, heap, i) ==
    IF i > Len(Categories) THEN [merged |-> merged, heap |-> heap]
    ELSE LET option_type == Categories[i]
         IN  IF option_type \notin DOMAIN new_opts
             THEN merge_loop(merged, new_opts, heap, i + 1)
             ELSE LET fresh   == option_type \notin DOMAIN merged
                      heap1   == IF fresh THEN Append(heap, <<>>) ELSE heap
                      merged1 == IF fresh
                                 THEN Update(merged, option_type :> Len(heap1))
                                 ELSE merged
                  IN  merge_loop(merged1, new_opts,
                        [heap1 EXCEPT ![merged1[option_type]] =
                            Update(@, heap[new_opts[option_type]])], i + 1)

\* merged.update(new_opts): the shallow update the docstring rules out
_merge_options_shallow(old_opts, new_opts, heap) ==
    merge_loop_shallow(old_opts, new_opts, heap, 1)

\* merged[option_type] = options for a new option type: the dictionary of
\* the block itself is stored, for every path that shares the block
_merge_options_shared(old_opts, new_opts, heap) ==
    merge_loop_shared(old_opts, new_opts, heap, 1)

\* [merged, heap]: merged = dict(old_opts) is a new dictionary holding the
\* references old_opts holds
_merge_options(old_opts, new_opts, heap) == merge_loop(old_opts, new_opts, heap, 1)

\* options[option_type] = d, for a dictionary d built while the group is
\* resolved (lines 346, 350, 356): d is a new object of the heap
Store(acc, option_type, d) ==
    [acc EXCEPT !.heap = Append(@, d),
                !.options = Update(@, option_type :> (Len(acc.heap) + 1))]

\* Lines 343-346: the norm entry, when the group has normalization options
resolve_normalization(group, acc) ==
    LET Set(normalization_) ==
            IF normalization_.raised # "none"
            THEN [acc EXCEPT !.raised = normalization_.raised]
            ELSE IF normalization_.none THEN acc
            ELSE Store(acc, "norm", normalization_.v)
    IN  Set(process_normalization(group))

\* Lines 348-351 (plot) and 353-356 (style): the block is evaluated by
\* todict and stored under its aliased keys
resolve_keywords(block, option_type, mode, acc, abort) ==
    IF acc.raised # "none" \/ ~block.present THEN acc
    ELSE LET Set(opts) ==
                 IF opts.raised # "none"
                 THEN [acc EXCEPT !.namespace = opts.namespace,
                                  !.ns = opts.ns,
                                  !.warnings = @ \o opts.warnings,
                                  !.raised = opts.raised]
                 ELSE Store([acc EXCEPT !.namespace = opts.namespace,
                                        !.ns = opts.ns,
                                        !.warnings = @ \o opts.warnings],
                            option_type,
                            alias_keys(opts.kwargs, opts.order, 1, <<>>))
         IN  Set(todict(nestedExpr(block.text, Opener(mode), Closer(mode)), mode,
                        acc.ns, acc.namespace, abort))

\* Lines 342-356 for one yielded group.  st = [keys, refs, heap, namespace,
\* ns, warnings, raised]; the result adds options: option type -> reference
resolve_options(group, st, abort) ==
    resolve_keywords(group.style, "style", "parens",
        resolve_keywords(group.plot, "plot", "brackets",
            resolve_normalization(group, st @@ [options |-> <<>>]),
            abort),
        abort)

\* Lines 358-359: for pathspec in pathspecs, in the order `iter` gives the
\* members of the set
RECURSIVE assign_loop(_, _, _, _)
assign_loop(iter, pathspecs, options, st) ==
    IF iter = <<>> THEN st
    ELSE LET pathspec_ == Head(iter)
         IN  IF pathspec_ \notin pathspecs
             THEN assign_loop(Tail(iter), pathspecs, options, st)
             ELSE LET old == IF pathspec_ \in DOMAIN st.refs
                             THEN st.refs[pathspec_] ELSE <<>>
                      m   == _merge_options(old, options, st.heap)
                  IN  assign_loop(Tail(iter), pathspecs, options,
                        [st EXCEPT !.keys = AppendNew(@, <<pathspec_>>),
                                   !.refs = Update(@, pathspec_ :> m.merged),
                                   !.heap = m.heap])

\* Lines 341-359 from yielded pair i on
RECURSIVE parse_loop(_, _, _, _, _)
parse_loop(grouped_paths, i, iter, abort, st) ==
    IF i > Len(grouped_paths) THEN st
    ELSE LET Base(r) == [keys |-> r.keys, refs |-> r.refs, heap |-> r.heap,
                         namespace |-> r.namespace, ns |-> r.ns,
                         warnings |-> r.warnings, raised |-> r.raised]
             Assign(r) ==
                 IF r.raised # "none" THEN Base(r)
                 ELSE parse_loop(grouped_paths, i + 1, iter, abort,
                        assign_loop(iter, grouped_paths[i].pathspecs, r.options,
                                    Base(r)))
         IN  Assign(resolve_options(grouped_paths[i].group, st, abort))

\* The dictionary a path's entry denotes: option type -> option pairs
Deref(entry, heap) == [t \in DOMAIN entry |-> heap[entry[t]]]

\* Lines 361-367 from key i of parse on: [out, warnings]
RECURSIVE output_loop(_, _, _)
output_loop(st, i, acc) ==
    IF i > Len(st.keys) THEN acc
    ELSE LET path == st.keys[i]
             d    == apply_deprecations(path)
         IN  output_loop(st, i + 1,
               [out      |-> Update(acc.out, d.path :> Deref(st.refs[path], st.heap)),
                warnings |-> acc.warnings \o d.warnings])

\* OptsSpec.parse(line, ns) with the class state it reads; `iter` is the
\* order in which a set of path specifications is iterated.
\* [raised, parse, out, warnings, namespace, ns]
OptsSpec_parse(line, caller_ns, cls_namespace, abort, iter) ==
    LET st0 == [keys |-> <<>>, refs |-> <<>>, heap |-> <<>>,
                namespace |-> cls_namespace, ns |-> caller_ns,
                warnings |-> <<>>, raised |-> "none"]
        Fail(st, e) == [raised |-> e, parse |-> <<>>, out |-> <<>>,
                        warnings |-> st.warnings,
                        namespace |-> st.namespace, ns |-> st.ns]
        Output(st, o) ==
            [raised |-> "none",
             parse |-> [path \in DOMAIN st.refs |-> Deref(st.refs[path], st.heap)],
             out |-> o.out,
             warnings |-> st.warnings \o o.warnings,
             namespace |-> st.namespace, ns |-> st.ns]
        Built(st) ==
            IF st.raised # "none" THEN Fail(st, st.raised)
            ELSE Output(st, output_loop(st, 1, [out |-> <<>>, warnings |-> <<>>]))
        Parsed(pr) ==
            IF pr.raised # "none" THEN Fail(st0, pr.raised)
            ELSE Built(parse_loop(_group_paths_without_options(pr.groups), 1, iter,
                                  abort, st0))
        Scanned(whole) ==
            IF whole # "none" THEN Fail(st0, whole)
            ELSE Parsed(parseString("opts_spec", line))
    IN  Scanned(CheckWholeLine("opts_spec", line))

-----------------------------------------------------------------------------
(* CompositorSpec.parse                                                    *)

\* The names of Compositor.operations, the registered operations
Compositor_operations == {"max", "toRGB"}

\* Line 426 with a third mode let through
ModesWithFoo == {T("data"), T("display"), T("foo")}

\* Line 426: the modes a group may have
Modes == {T("data"), T("display")}

\* opmap[group['op']], line 431: a missing key raises KeyError
LookupOperation(opmap, name) ==
    IF name \in opmap THEN [raised |-> "none", operation |-> name]
    ELSE [raised |-> "KeyError", operation |-> ""]

\* Lines 424-441 from group i on.  st = [definitions, warnings, raised,
\* namespace, ns]
RECURSIVE compositor_loop(_, _, _, _)
compositor_loop(groups, i, abort, st) ==
    IF i > Len(groups) THEN st
    ELSE LET opmap   == Compositor_operations
             stop(e) == [st EXCEPT !.definitions = <<>>, !.raised = e]
             NoSettings == [kwargs |-> <<>>, order |-> <<>>, warnings |-> <<>>,
                            raised |-> "none",
                            namespace |-> st.namespace, ns |-> st.ns]
             Define(group, operation, spec, settings) ==
                 IF settings.raised # "none"
                 THEN [stop(settings.raised) EXCEPT
                          !.namespace = settings.namespace, !.ns = settings.ns]
                 ELSE compositor_loop(groups, i + 1, abort,
                        [definitions |-> Append(st.definitions,
                             [spec |-> spec, operation |-> operation.operation,
                              value |-> group.value, mode |-> group.mode,
                              kwargs |-> settings.kwargs]),
                         warnings |-> st.warnings \o settings.warnings,
                         raised |-> "none",
                         namespace |-> settings.namespace, ns |-> settings.ns])
             Group(group, operation, spec_list) ==
                 IF group.mode \notin Modes THEN stop("SyntaxError")
                 ELSE IF operation.raised # "none" THEN stop(operation.raised)
                 ELSE IF \E j \in 1..Len(spec_list) : spec_list[j].k = "list"
                      THEN stop("TypeError")
                 ELSE IF group.op[1] \notin opmap THEN stop("SyntaxError")
                 ELSE Define(group, operation,
                        Join(<<" ">>, [j \in 1..Len(spec_list) |-> spec_list[j].v]),
                        IF group.op_settings.present
                        THEN todict(nestedExpr(group.op_settings.text, "[", "]"),
                                    "brackets", st.ns, st.namespace, abort)
                        ELSE NoSettings)
         IN  Group(groups[i], LookupOperation(opmap, groups[i].op[1]),
                   nestedExpr(groups[i].spec, "(", ")"))

\* [definitions, warnings, raised, namespace, ns]
CompositorSpec_parse(line, caller_ns, cls_namespace, abort) ==
    LET st0 == [definitions |-> <<>>, warnings |-> <<>>, raised |-> "none",
                namespace |-> cls_namespace, ns |-> caller_ns]
        Parsed(pr) ==
            IF pr.raised # "none" THEN [st0 EXCEPT !.raised = pr.raised]
            ELSE compositor_loop(pr.groups, 1, abort, st0)
        Scanned(whole) ==
            IF whole # "none" THEN [st0 EXCEPT !.raised = whole]
            ELSE Parsed(parseString("compositor_spec", line))
    IN  Scanned(CheckWholeLine("compositor_spec", line))

-----------------------------------------------------------------------------
DefaultNamespace ==
    [k \in {"np", "Cycle", "Palette"} |-> <<"<" \o k \o ">">>]

\* The class attributes as the module leaves them, and no call made yet
InitCommon ==
    /\ op = "none"
    /\ ns = <<>>
    /\ ret = <<>>
    /\ raised = "none"
    /\ warnings = <<>>
    /\ namespace = DefaultNamespace
    /\ abort_on_eval_failure = FALSE

-----------------------------------------------------------------------------
(* OptsSpec.process_normalization on a list of tokens.                     *)

MaxNormTokens == 3

NormTokens == Range(NormOptions) \cup {<<"+", "depthwise">>}

NormLists == SeqUpTo(NormTokens, MaxNormTokens)

InitNorm == InitCommon /\ arg \in NormLists

\* The braces hold the tokens of arg, separated by spaces
ProcessNormalization ==
    /\ op = "none"
    /\ \E r \in {process_normalization(
                      Seg(T("Curve"), Block(Join(<<" ">>, arg)), NoBlock, NoBlock))} :
           /\ op' = "process_normalization"
           /\ ret' = [none |-> r.none, v |-> r.v]
           /\ raised' = r.raised
    /\ UNCHANGED <<arg, ns, warnings, namespace, abort_on_eval_failure>>

NextNorm == ProcessNormalization

SpecNorm == InitNorm /\ [][NextNorm]_vars

PlusFramewise == <<"+", "framewise">>

MinusFramewise == <<"-", "framewise">>

PlusAxiswise == <<"+", "axiswise">>

MinusAxiswise == <<"-", "axiswise">>

\* The reference of the claim: when a list of tokens is an error
NormRefRaises(opts) ==
    \/ \E i, j \in 1..Len(opts) : i # j /\ opts[i] = opts[j]
    \/ \E i \in 1..Len(opts) :
          opts[i] \notin {PlusFramewise, MinusFramewise, PlusAxiswise, MinusAxiswise}
    \/ Has(opts, PlusFramewise) /\ Has(opts, MinusFramewise)
    \/ Has(opts, PlusAxiswise) /\ Has(opts, MinusAxiswise)

-----------------------------------------------------------------------------
(* OptsSpec.apply_deprecations on a dotted path.                           *)

MaxComponents == 3

Components == {T("GridImage"), T("Image"), T("Curve"), T("Foo"), T("B1")}

\* arg lists the components of the path, which are joined with dots
InitDeprec ==
    /\ InitCommon
    /\ arg \in {c \in SeqUpTo(Components, MaxComponents) : Len(c) >= 1}

ApplyDeprecations ==
    /\ op = "none"
    /\ \E r \in {apply_deprecations(Join(<<".">>, arg))} :
           /\ op' = "apply_deprecations"
           /\ ret' = r.path
           /\ warnings' = r.warnings
    /\ UNCHANGED <<arg, ns, raised, namespace, abort_on_eval_failure>>

NextDeprec == ApplyDeprecations

SpecDeprec == InitDeprec /\ [][NextDeprec]_vars

DeprecatedNames == {T(deprecations[i][1]) : i \in 1..Len(deprecations)}

Replacement(name) ==
    T(deprecations[CHOOSE i \in 1..Len(deprecations) : T(deprecations[i][1]) = name][2])

\* C9: apply_deprecations rewrites a path exactly when its first dotted
\* component is a deprecated name: that component becomes its replacement,
\* the following components are kept in order and one warning is emitted;
\* any other path is returned unchanged without a warning, also when a later
\* component is a deprecated name.
C9_DeprecationRewritesFirstComponentOnly ==
    op = "apply_deprecations" =>
        IF arg[1] \in DeprecatedNames
        THEN /\ ret = Join(<<".">>, <<Replacement(arg[1])>> \o Tail(arg))
             /\ ret # Join(<<".">>, arg)
             /\ Len(warnings) = 1
        ELSE /\ ret = Join(<<".">>, arg)
             /\ warnings = <<>>

\* A deprecated first component followed by further components was rewritten
C9_Witness ==
    /\ op = "apply_deprecations"
    /\ arg = <<T("GridImage"), T("Foo"), T("GridImage")>>
    /\ ret = <<"Image", ".", "Foo", ".", "GridImage">>
    /\ Len(warnings) = 1

-----------------------------------------------------------------------------
(* Parser.todict over a sequence of calls: the caller binds a namespace,   *)
(* the extension sets the class flag, and the keyword list is parsed.      *)

MaxKeywords == 3

Kx1 == <<"x", "=", "1">>

Ky2 == <<"y", "=", "2">>

Kxa == <<"x", "=", "a">>

Kbad == <<"y", "=", "@">>

Knp == <<"z", "=", "np">>

Keywords == {Kx1, Ky2, Kxa, Kbad, Knp}

\* The dictionaries a caller passes as ns
Namespaces ==
    {<<>>,
     [k \in {"a"} |-> <<"7">>],
     [k \in {"np"} |-> <<"8">>],
     [k \in {"a", "np"} |-> IF k = "a" THEN <<"7">> ELSE <<"8">>]}

\* arg lists the keywords written between the parentheses
InitTodict == InitCommon /\ arg \in SeqUpTo(Keywords, MaxKeywords)

\* The caller binds the dictionary it will pass as ns
Supply ==
    /\ \E n \in Namespaces : ns' = n
    /\ op' = "supply"
    /\ ret' = <<>>
    /\ raised' = "none"
    /\ warnings' = <<>>
    /\ UNCHANGED <<arg, namespace, abort_on_eval_failure>>

\* Parser.abort_on_eval_failure is assigned
Configure ==
    /\ abort_on_eval_failure' = ~abort_on_eval_failure
    /\ op' = "configure"
    /\ ret' = <<>>
    /\ raised' = "none"
    /\ warnings' = <<>>
    /\ UNCHANGED <<arg, ns, namespace>>

\* todict(parseresult, 'parens', ns) on the keywords of arg, separated by
\* a comma and a space
Todict ==
    \E r \in {todict(nestedExpr(Join(<<",", " ">>, arg), "(", ")"), "parens", ns,
                      namespace, abort_on_eval_failure)} :
        /\ op' = "todict"
        /\ ret' = r.kwargs
        /\ raised' = r.raised
        /\ warnings' = r.warnings
        /\ namespace' = r.namespace
        /\ ns' = r.ns
        /\ UNCHANGED <<arg, abort_on_eval_failure>>

NextTodict == Supply \/ Configure \/ Todict

SpecTodict == InitTodict /\ [][NextTodict]_vars

\* What a keyword name=atom of Keywords denotes under a namespace
RefOK(kw, names) == kw[3] \in Numerals \/ kw[3] \in DOMAIN names

RefValue(kw, names) == IF kw[3] \in Numerals THEN <<kw[3]>> ELSE names[kw[3]]

\* The mapping of the keywords of kws that evaluate, later ones winning
RefDict(kws, names) ==
    LET good == {i \in 1..Len(kws) : RefOK(kws[i], names)}
    IN  [k \in {T(kws[i][1]) : i \in good} |->
            RefValue(kws[CHOOSE i \in good :
                            /\ T(kws[i][1]) = k
                            /\ \A j \in good : T(kws[j][1]) = k => j <= i], names)]

\* The keywords of kws that fail to evaluate, in order
RefFailures(kws, names) ==
    LET bad(kw) == ~RefOK(kw, names)
    IN  SelectSeq(kws, bad)

\* dict(cls.namespace, **ns) with the class namespace as the module sets it
RefOverlay(caller) ==
    [k \in (DOMAIN DefaultNamespace) \cup (DOMAIN caller) |->
        IF k \in DOMAIN caller THEN caller[k] ELSE DefaultNamespace[k]]

\* C5: when a keyword fails to evaluate, todict under the default
\* configuration omits that keyword, warns once for it and still returns
\* every other keyword before and after it; under abort_on_eval_failure it
\* raises SyntaxError and returns no mapping.
C5_EvalFailureSkipsOrAborts ==
    op = "todict" =>
        LET names    == Update(namespace, ns)
            failures == RefFailures(arg, names)
        IN  IF failures = <<>>
            THEN raised = "none" /\ ret = RefDict(arg, names) /\ warnings = <<>>
            ELSE IF abort_on_eval_failure
            THEN raised = "SyntaxError" /\ ret = <<>>
            ELSE /\ raised = "none"
                 /\ ret = RefDict(arg, names)
                 /\ Len(warnings) = Len(failures)
                 /\ \A i \in 1..Len(failures) : warnings[i].about = failures[i]

\* Default configuration: of x=1, y=@, y=2 the middle keyword was dropped with
\* a warning and the keywords around it were returned
C5_Witness ==
    /\ op = "todict"
    /\ ~abort_on_eval_failure
    /\ arg = <<Kx1, Kbad, Ky2>>
    /\ raised = "none"
    /\ ret = (T("x") :> <<"1">>) @@ (T("y") :> <<"2">>)
    /\ Len(warnings) = 1

\* C10: every todict call evaluates its keywords in the overlay of the
\* caller's namespace on the class default namespace (the caller's binding
\* wins), and leaves both the caller's dictionary and the class namespace as
\* they were, so a name bound by an earlier call's namespace is unbound in a
\* call that does not supply it.
C10_NamespacesAreOverlaidNotMutated ==
    [][op' = "todict" =>
          /\ namespace' = namespace
          /\ ns' = ns
          /\ namespace' = DefaultNamespace
          /\ (raised' = "none" => ret' = RefDict(arg, RefOverlay(ns)))
          /\ (raised' # "none" => RefFailures(arg, RefOverlay(ns)) # <<>>)]_vars

\* The caller's np shadowed the default one, and its a was visible
C10_Witness ==
    /\ op = "todict"
    /\ arg = <<Kxa, Knp>>
    /\ DOMAIN ns = {"a", "np"}
    /\ ret = (T("x") :> ns["a"]) @@ (T("z") :> ns["np"])
    /\ namespace = DefaultNamespace

-----------------------------------------------------------------------------
(* OptsSpec.parse on a line of path specifications and option blocks.      *)

MaxGroups == 3

PathA == T("A1")

PathB == T("B1")

Paths == {PathA, PathB}

\* The option blocks written after a path, by name
ChoiceBlocks ==
    [none  |-> [norm |-> NoBlock, plot |-> NoBlock, style |-> NoBlock],
     sx1   |-> [norm |-> NoBlock, plot |-> NoBlock,
                style |-> Block(<<"x", "=", "1">>)],
     sx2y1 |-> [norm |-> NoBlock, plot |-> NoBlock,
                style |-> Block(<<"x", "=", "2", ",", " ", "y", "=", "1">>)],
     px1   |-> [norm |-> NoBlock, plot |-> Block(<<"x", "=", "1">>),
                style |-> NoBlock],
     nf    |-> [norm |-> Block(<<"+", "framewise">>), plot |-> NoBlock,
                style |-> NoBlock],
     empty |-> [norm |-> Block(<<>>), plot |-> NoBlock, style |-> NoBlock]]

Choices == DOMAIN ChoiceBlocks

\* arg lists the groups of the line: [pathspec, choice]
Groups == [pathspec : Paths, choice : Choices]

\* The line: the groups of arg, separated by whitespace
RECURSIVE Render(_)
Render(groups) ==
    IF groups = <<>> THEN <<>>
    ELSE LET g    == Head(groups)
             b    == ChoiceBlocks[g.choice]
             item == Seg(g.pathspec, b.norm, b.plot, b.style)
         IN  IF Len(groups) = 1 THEN <<item>>
             ELSE <<item, Ws>> \o Render(Tail(groups))

\* The orders in which a set can be iterated
Orders(S) ==
    {o \in [1..Cardinality(S) -> S] : \A i, j \in DOMAIN o : o[i] = o[j] => i = j}

\* The code treats every path alike, so the first path of the line is A1
Init ==
    /\ InitCommon
    /\ arg \in {l \in SeqUpTo(Groups, MaxGroups) :
                    Len(l) >= 1 /\ l[1].pathspec = PathA}

OptsParse ==
    /\ op = "none"
    /\ \E iter \in Orders({arg[i].pathspec : i \in 1..Len(arg)}) :
          \E r \in {OptsSpec_parse(Render(arg), ns, namespace,
                                   abort_on_eval_failure, iter)} :
              /\ op' = "OptsSpec.parse"
              /\ ret' = [parse |-> r.parse, out |-> r.out]
              /\ raised' = r.raised
              /\ warnings' = r.warnings
              /\ namespace' = r.namespace
              /\ ns' = r.ns
    /\ UNCHANGED <<arg, abort_on_eval_failure>>

Next == OptsParse

Spec == Init /\ [][Next]_vars

\* What each choice of blocks says, option type by option type
ChoiceOptions ==
    [none  |-> <<>>,
     sx1   |-> [style |-> (T("x") :> <<"1">>)],
     sx2y1 |-> [style |-> (T("x") :> <<"2">>) @@ (T("y") :> <<"1">>)],
     px1   |-> [plot |-> (T("x") :> <<"1">>)],
     nf    |-> [norm |-> (T("framewise") :> PyTrue) @@ (T("axiswise") :> PyFalse)],
     empty |-> <<>>]

HasBlock(g) == g.choice # "none"

\* The index of the group whose blocks the occurrence at i is given: the
\* first group from i on that has a block (0 when there is none)
GivenBy(groups, i) ==
    IF \E j \in i..Len(groups) : HasBlock(groups[j])
    THEN CHOOSE j \in i..Len(groups) :
            HasBlock(groups[j]) /\ \A k \in i..(j - 1) : ~HasBlock(groups[k])
    ELSE 0

OccurrenceOptions(groups, i) ==
    IF GivenBy(groups, i) = 0 THEN <<>>
    ELSE ChoiceOptions[groups[GivenBy(groups, i)].choice]

\* The key-wise update, left to right, of the dictionaries that the
\* occurrences of path among groups[1..n] have for option type t
RECURSIVE KeywiseUpdate(_, _, _, _)
KeywiseUpdate(groups, n, path, t) ==
    IF n = 0 THEN <<>>
    ELSE LET before == KeywiseUpdate(groups, n - 1, path, t)
             here   == OccurrenceOptions(groups, n)
         IN  IF groups[n].pathspec = path /\ t \in DOMAIN here
             THEN Update(before, here[t])
             ELSE before

\* The option types some occurrence of path among groups[1..n] carries
TypesOf(groups, n, path) ==
    {t \in Range(Categories) :
        \E i \in 1..n : groups[i].pathspec = path
                        /\ t \in DOMAIN OccurrenceOptions(groups, i)}

PathsOf(groups) == {groups[i].pathspec : i \in 1..Len(groups)}

\* C1: after the whole line, the dictionary stored for a path and an option
\* type is the left-to-right key-wise update of the dictionaries of all
\* occurrences of the path: later keys win, earlier keys survive, and an
\* occurrence without that option type changes nothing.
C1_StoredIsKeywiseUpdateOfOccurrences ==
    (op = "OptsSpec.parse" /\ raised = "none") =>
        /\ DOMAIN ret.parse = PathsOf(arg)
        /\ \A path \in PathsOf(arg) :
              /\ DOMAIN ret.parse[path] = TypesOf(arg, Len(arg), path)
              /\ \A t \in DOMAIN ret.parse[path] :
                    ret.parse[path][t] = KeywiseUpdate(arg, Len(arg), path, t)

\* A1 (x=2, y=1) A1 [x=1] A1 (x=1): x was overwritten, y survived and the
\* plot block left the style dictionary alone
C1_Witness ==
    /\ op = "OptsSpec.parse"
    /\ arg = <<[pathspec |-> PathA, choice |-> "sx2y1"],
               [pathspec |-> PathA, choice |-> "px1"],
               [pathspec |-> PathA, choice |-> "sx1"]>>
    /\ ret.parse[PathA] = [style |-> (T("x") :> <<"1">>) @@ (T("y") :> <<"1">>),
                           plot  |-> (T("x") :> <<"1">>)]

\* The last group before j that has a block (0 when there is none)
PrevBlock(groups, j) ==
    IF \E k \in 1..(j - 1) : HasBlock(groups[k])
    THEN CHOOSE k \in 1..(j - 1) :
            HasBlock(groups[k]) /\ \A m \in (k + 1)..(j - 1) : ~HasBlock(groups[m])
    ELSE 0

\* The paths that appeared since the previous block, the one at j included
SharedAt(groups, j) ==
    {groups[i].pathspec : i \in (PrevBlock(groups, j) + 1)..j}

\* The groups among 1..n whose blocks are applied to path
AppliedTo(groups, n, path) ==
    {j \in 1..n : HasBlock(groups[j]) /\ path \in SharedAt(groups, j)}

\* The blocks applied to path among groups[1..n], merged in order, for
\* option type t
RECURSIVE AppliedBlocks(_, _, _, _)
AppliedBlocks(groups, n, path, t) ==
    IF n = 0 THEN <<>>
    ELSE LET before == AppliedBlocks(groups, n - 1, path, t)
             opts   == ChoiceOptions[groups[n].choice]
         IN  IF n \in AppliedTo(groups, n, path) /\ t \in DOMAIN opts
             THEN Update(before, opts[t])
             ELSE before

\* The entry of path after groups[1..n]
EntryAfter(groups, n, path) ==
    [t \in {u \in Range(Categories) :
              \E j \in AppliedTo(groups, n, path) :
                  u \in DOMAIN ChoiceOptions[groups[j].choice]} |->
        AppliedBlocks(groups, n, path, t)]

\* The paths still pending at the end of the line
TrailingPending(groups) ==
    {groups[i].pathspec : i \in (PrevBlock(groups, Len(groups) + 1) + 1)..Len(groups)}

\* Each options block is applied to exactly the paths that appeared since
\* the previous one, itself included
BlocksAppliedToPendingPaths ==
    /\ DOMAIN ret.parse = PathsOf(arg)
    /\ \A path \in PathsOf(arg) : ret.parse[path] = EntryAfter(arg, Len(arg), path)

\* C6, read literally: each options block is applied to exactly the paths that
\* appeared since the previous block, itself included, and the paths still
\* pending at the end of the line appear in the output with an empty options
\* mapping.
C6_TrailingPathsHaveEmptyOptions ==
    (op = "OptsSpec.parse" /\ raised = "none") =>
        /\ BlocksAppliedToPendingPaths
        /\ \A path \in TrailingPending(arg) :
              /\ apply_deprecations(path).path \in DOMAIN ret.out
              /\ ret.out[apply_deprecations(path).path] = <<>>

\* C6, with trailing paths keeping what earlier blocks gave them: each options block is applied to exactly the paths that
\* appeared since the previous block, itself included; a path still pending
\* at the end of the line is given an empty options mapping, which is merged
\* into its entry without changing it, so it has a key in the output, with
\* an empty options mapping when none of its occurrences was given a block.
C6_TrailingPathsKeepEarlierOptions ==
    (op = "OptsSpec.parse" /\ raised = "none") =>
        /\ BlocksAppliedToPendingPaths
        /\ \A path \in TrailingPending(arg) :
              /\ apply_deprecations(path).path \in DOMAIN ret.out
              /\ ret.parse[path] = EntryAfter(arg, PrevBlock(arg, Len(arg) + 1), path)
              /\ (AppliedTo(arg, Len(arg), path) = {} =>
                     ret.out[apply_deprecations(path).path] = <<>>)

\* A1 B1 (x=1) A1: the block went to both pending paths, and A1, pending
\* again at the end of the line, kept it
C6_Witness ==
    /\ op = "OptsSpec.parse"
    /\ arg = <<[pathspec |-> PathA, choice |-> "none"],
               [pathspec |-> PathB, choice |-> "sx1"],
               [pathspec |-> PathA, choice |-> "none"]>>
    /\ ret.out = (PathA :> [style |-> (T("x") :> <<"1">>)]) @@
                 (PathB :> [style |-> (T("x") :> <<"1">>)])

\* C7: when several paths share one options block, a later block given to
\* one of them changes only that path's entry: every path of the shared set
\* that is given no later block keeps exactly the entry it had once the
\* shared block was applied.
C7_SharedBlockOverriddenIndividually ==
    (op = "OptsSpec.parse" /\ raised = "none") =>
        \A j \in 1..Len(arg) :
            (HasBlock(arg[j]) /\ Cardinality(SharedAt(arg, j)) >= 2) =>
                \A other \in SharedAt(arg, j) :
                    (AppliedTo(arg, Len(arg), other) \subseteq 1..j) =>
                        ret.parse[other] = EntryAfter(arg, j, other)

\* A1 B1 (x=1) A1 (x=2, y=1): B1 keeps x=1 while A1 is overridden
C7_Witness ==
    /\ op = "OptsSpec.parse"
    /\ arg = <<[pathspec |-> PathA, choice |-> "none"],
               [pathspec |-> PathB, choice |-> "sx1"],
               [pathspec |-> PathA, choice |-> "sx2y1"]>>
    /\ ret.parse[PathB] = [style |-> (T("x") :> <<"1">>)]
    /\ ret.parse[PathA] = [style |-> (T("x") :> <<"2">>) @@ (T("y") :> <<"1">>)]

\* The groups whose normalization block is applied to path
NormBlocksOf(groups, path) ==
    {j \in AppliedTo(groups, Len(groups), path) :
        ChoiceBlocks[groups[j].choice].norm.present}

\* C12: a path has a normalization entry exactly when a normalization block
\* is applied to it, and a block that holds no token gives the entry in
\* which framewise and axiswise are both false.
C12_EmptyNormalizationBlockGivesEntry ==
    (op = "OptsSpec.parse" /\ raised = "none") =>
        \A path \in PathsOf(arg) :
            /\ ("norm" \in DOMAIN ret.parse[path]) <=> (NormBlocksOf(arg, path) # {})
            /\ (/\ NormBlocksOf(arg, path) # {}
                /\ \A j \in NormBlocksOf(arg, path) : arg[j].choice = "empty")
               => ret.parse[path]["norm"]
                    = (T("framewise") :> PyFalse) @@ (T("axiswise") :> PyFalse)

-----------------------------------------------------------------------------
(* OptsSpec.parse on one path with one plot or style option, for every     *)
(* option name of the alias table.                                         *)

Curve == T("Curve")

\* The names written: the legacy names, the names the table maps them to,
\* and a name the table does not mention
WrittenNames ==
    (DOMAIN aliases) \cup {aliases[k] : k \in DOMAIN aliases} \cup {T("color")}

\* The line `Curve [name=value]` or `Curve (name=value)`
AliasLine(name, category, value) ==
    LET block == Block(name \o <<"=", value>>)
    IN  <<Seg(Curve, NoBlock,
              IF category = "plot" THEN block ELSE NoBlock,
              IF category = "style" THEN block ELSE NoBlock)>>

InitAlias ==
    /\ InitCommon
    /\ arg \in [name : WrittenNames, category : {"plot", "style"}, value : {"1", "2"}]

AliasParse ==
    /\ op = "none"
    /\ \E r \in {OptsSpec_parse(AliasLine(arg.name, arg.category, arg.value), ns,
                               namespace, abort_on_eval_failure, <<Curve>>)} :
           /\ op' = "OptsSpec.parse"
           /\ ret' = [parse |-> r.parse, out |-> r.out]
           /\ raised' = r.raised
           /\ warnings' = r.warnings
           /\ namespace' = r.namespace
           /\ ns' = r.ns
    /\ UNCHANGED <<arg, abort_on_eval_failure>>

NextAlias == AliasParse

SpecAlias == InitAlias /\ [][NextAlias]_vars

\* The keys stored for Curve when name=value is written in a block
StoredKeys(name, category, value) ==
    DOMAIN OptsSpec_parse(AliasLine(name, category, value), <<>>,
                          DefaultNamespace, FALSE, <<Curve>>).out[Curve][category]

\* C8: a plot or style option written with a legacy name of the alias table
\* is stored under the same key as when it is written with the name the
\* table gives for it, and a name that is not in the table is stored under
\* itself.
C8_LegacyNameStoredAsCanonicalName ==
    (op = "OptsSpec.parse" /\ raised = "none") =>
        IF arg.name \in DOMAIN aliases
        THEN DOMAIN ret.out[Curve][arg.category]
                = StoredKeys(aliases[arg.name], arg.category, arg.value)
        ELSE Len(arg.name) = 1 => DOMAIN ret.out[Curve][arg.category] = {arg.name}

-----------------------------------------------------------------------------
(* Both parse methods on lines that hold text the grammar does not match.  *)

MaxPieces == 4

\* `Curve(x=1)`, a spec group; `@`, text no spec group can start in
OptsPieces ==
    {Ws,
     Seg(Curve, NoBlock, NoBlock, Block(<<"x", "=", "1">>)),
     Seg(T("@"), NoBlock, NoBlock, NoBlock)}

\* `data max(A1 * B1) C1 []`, a compositor group; `@`
CompositorPieces ==
    {CWs,
     CSeg(T("data"), T("max"), <<"A1", " ", "*", " ", "B1">>, T("C1"), Block(<<>>)),
     CSeg(T("@"), <<>>, <<>>, <<>>, NoBlock)}

InitScan ==
    /\ InitCommon
    /\ \/ arg \in [grammar : {"opts_spec"},
                   line : {l \in SeqUpTo(OptsPieces, MaxPieces) : Len(l) >= 1}]
       \/ arg \in [grammar : {"compositor_spec"},
                   line : {l \in SeqUpTo(CompositorPieces, MaxPieces) : Len(l) >= 1}]

ScanOptsParse ==
    /\ op = "none"
    /\ arg.grammar = "opts_spec"
    /\ \E r \in {OptsSpec_parse(arg.line, ns, namespace, abort_on_eval_failure,
                               <<Curve>>)} :
           /\ op' = "OptsSpec.parse"
           /\ ret' = r.out
           /\ raised' = r.raised
           /\ warnings' = r.warnings
           /\ namespace' = r.namespace
           /\ ns' = r.ns
    /\ UNCHANGED <<arg, abort_on_eval_failure>>

ScanCompositorParse ==
    /\ op = "none"
    /\ arg.grammar = "compositor_spec"
    /\ \E r \in {CompositorSpec_parse(arg.line, ns, namespace, abort_on_eval_failure)} :
           /\ op' = "CompositorSpec.parse"
           /\ ret' = r.definitions
           /\ raised' = r.raised
           /\ warnings' = r.warnings
           /\ namespace' = r.namespace
           /\ ns' = r.ns
    /\ UNCHANGED <<arg, abort_on_eval_failure>>

NextScan == ScanOptsParse \/ ScanCompositorParse

SpecScan == InitScan /\ [][NextScan]_vars

\* The grammar consumes the whole trimmed line in one match: the line holds
\* a group, and nothing but groups and whitespace
ConsumedEntirely(grammar, line) ==
    /\ \E i \in 1..Len(line) : line[i].kind = "seg"
    /\ \A i \in 1..Len(line) : line[i].kind = "seg" => Matches(grammar, line[i])

\* C2: both parse methods raise SyntaxError, and nothing else, for every
\* line that the grammar does not consume entirely after trimming, whether
\* the unmatched text lies after the match, before it, or between matches.
C2_UnconsumedLineIsSyntaxError ==
    (op \in {"OptsSpec.parse", "CompositorSpec.parse"}
        /\ ~ConsumedEntirely(arg.grammar, arg.line))
    => raised = "SyntaxError"

-----------------------------------------------------------------------------
(* CompositorSpec.parse on a line of compositor groups.                    *)

MaxDefinitions == 2

CompositorGroups ==
    [mode : {T("data"), T("display"), T("foo")},
     op : {T("max"), T("toRGB"), T("blur")},
     settings : {NoBlock, Block(<<"x", "=", "1">>)}]

\* The line: `mode op(A1 * B1) C1 [settings]` for each group of arg, the
\* groups separated by whitespace
RECURSIVE RenderCompositor(_)
RenderCompositor(groups) ==
    IF groups = <<>> THEN <<>>
    ELSE LET g    == Head(groups)
             item == CSeg(g.mode, g.op, <<"A1", " ", "*", " ", "B1">>, T("C1"),
                          g.settings)
         IN  IF Len(groups) = 1 THEN <<item>>
             ELSE <<item, CWs>> \o RenderCompositor(Tail(groups))

InitCompositor ==
    /\ InitCommon
    /\ arg \in {l \in SeqUpTo(CompositorGroups, MaxDefinitions) : Len(l) >= 1}

CompositorParse ==
    /\ op = "none"
    /\ \E r \in {CompositorSpec_parse(RenderCompositor(arg), ns, namespace,
                                     abort_on_eval_failure)} :
           /\ op' = "CompositorSpec.parse"
           /\ ret' = r.definitions
           /\ raised' = r.raised
           /\ warnings' = r.warnings
           /\ namespace' = r.namespace
           /\ ns' = r.ns
    /\ UNCHANGED <<arg, abort_on_eval_failure>>

NextCompositor == CompositorParse

SpecCompositor == InitCompositor /\ [][NextCompositor]_vars

\* C3: a group whose operation name is not registered makes
\* CompositorSpec.parse raise SyntaxError, and no other kind of error,
\* whatever the position of the group and the name.
C3_UnregisteredOperationIsSyntaxError ==
    (op = "CompositorSpec.parse"
        /\ \E i \in 1..Len(arg) : arg[i].op[1] \notin Compositor_operations)
    => raised = "SyntaxError"

\* The first group of the line whose mode is neither data nor display
\* (0 when every mode is one of the two)
FirstBadMode(groups) ==
    IF \E i \in 1..Len(groups) : groups[i].mode \notin {T("data"), T("display")}
    THEN CHOOSE i \in 1..Len(groups) :
            /\ groups[i].mode \notin {T("data"), T("display")}
            /\ \A j \in 1..(i - 1) : groups[j].mode \in {T("data"), T("display")}
    ELSE 0

\* C11: a group whose mode is neither data nor display is accepted by the
\* grammar, and once the groups before it have been processed (each names a
\* registered operation) the call raises SyntaxError and returns no list of
\* definitions, whatever valid groups came before it.
C11_InvalidModeAbortsWholeCall ==
    (/\ op = "CompositorSpec.parse"
     /\ FirstBadMode(arg) # 0
     /\ \A j \in 1..(FirstBadMode(arg) - 1) : arg[j].op[1] \in Compositor_operations)
    => /\ CheckWholeLine("compositor_spec", RenderCompositor(arg)) = "none"
       /\ parseString("compositor_spec", RenderCompositor(arg)).raised = "none"
       /\ raised = "SyntaxError"
       /\ ret = <<>>

\* data max(A1 * B1) C1 foo toRGB(A1 * B1) C1: the first group is valid,
\* and nothing is returned
C11_Witness ==
    /\ op = "CompositorSpec.parse"
    /\ arg = <<[mode |-> T("data"), op |-> T("max"), settings |-> NoBlock],
               [mode |-> T("foo"), op |-> T("toRGB"), settings |-> NoBlock]>>
    /\ raised = "SyntaxError"
    /\ ret = <<>>

-----------------------------------------------------------------------------
(* OptsSpec.parse on lines whose paths have the forms dotted_path is meant *)
(* to take.                                                                *)

MaxPathGroups == 2

\* A, A1, A.B1 and Curve
PathForms == {T("A"), T("A1"), <<"A", ".", "B1">>, T("Curve")}

\* The style block written after a path, by name
PathBlocks ==
    [none |-> NoBlock,
     x1   |-> Block(<<"x", "=", "1">>),
     y2   |-> Block(<<"y", "=", "2">>)]

PathGroups == [pathspec : PathForms, block : DOMAIN PathBlocks]

\* The line: the groups of arg, separated by whitespace
RECURSIVE RenderPaths(_)
RenderPaths(groups) ==
    IF groups = <<>> THEN <<>>
    ELSE LET item == Seg(Head(groups).pathspec, NoBlock, NoBlock,
                         PathBlocks[Head(groups).block])
         IN  IF Len(groups) = 1 THEN <<item>>
             ELSE <<item, Ws>> \o RenderPaths(Tail(groups))

InitPath ==
    /\ InitCommon
    /\ arg \in {l \in SeqUpTo(PathGroups, MaxPathGroups) : Len(l) >= 1}

PathParse ==
    /\ op = "none"
    /\ \E iter \in Orders({arg[i].pathspec : i \in 1..Len(arg)}) :
          \E r \in {OptsSpec_parse(RenderPaths(arg), ns, namespace,
                                   abort_on_eval_failure, iter)} :
              /\ op' = "OptsSpec.parse"
              /\ ret' = [parse |-> r.parse, out |-> r.out]
              /\ raised' = r.raised
              /\ warnings' = r.warnings
              /\ namespace' = r.namespace
              /\ ns' = r.ns
    /\ UNCHANGED <<arg, abort_on_eval_failure>>

NextPath == PathParse

SpecPath == InitPath /\ [][NextPath]_vars

\* C13: every identifier that begins with an uppercase letter and goes on
\* with alphanumerics, dots or underscores is accepted as a path, the
\* one-letter path A included: the line parses, its paths are the keys of
\* the result, and `A (x=1) A (y=2)` yields the single key A with the style
\* options x=1 and y=2.
C13_OneLetterPathAccepted ==
    op = "OptsSpec.parse" =>
        /\ raised = "none"
        /\ DOMAIN ret.out = {arg[i].pathspec : i \in 1..Len(arg)}
        /\ arg = <<[pathspec |-> T("A"), block |-> "x1"],
                   [pathspec |-> T("A"), block |-> "y2"]>>
           => ret.out = (T("A") :> [style |-> (T("x") :> <<"1">>) @@
                                              (T("y") :> <<"2">>)])

-----------------------------------------------------------------------------
(* The regrouping of Parser.todict (lines 87-100) on a flat parse result.  *)

MaxTokens == 4

\* x=1, y=(1, 2, 3), b}
FlatTokens ==
    {<<"x", "=", "1">>, <<"y", "=", "(", "1">>, <<"2">>, <<"3", ")">>, <<"b", "}">>}

InitRegroup ==
    /\ InitCommon
    /\ arg \in SeqUpTo(FlatTokens, MaxTokens)

\* tokens = cls.collect_tokens(parseresult, mode), then the groupby loop
Regroup ==
    /\ op = "none"
    /\ \E tokens \in {collect_tokens([i \in 1..Len(arg) |-> Tok(arg[i])], "parens")} :
          \E r \in {IF tokens.raised # "none"
                    THEN [grouped |-> <<>>, raised |-> tokens.raised]
                    ELSE group_loop(tokens.tokens, <<>>)} :
              /\ op' = "todict.grouped"
              /\ ret' = r.grouped
              /\ raised' = r.raised
    /\ UNCHANGED <<arg, ns, warnings, namespace, abort_on_eval_failure>>

NextRegroup == Regroup

SpecRegroup == InitRegroup /\ [][NextRegroup]_vars

\* The positions of the keyword tokens (those that hold "="), in order
RECURSIVE KeywordPositions(_, _)
KeywordPositions(tokens, i) ==
    IF i > Len(tokens) THEN <<>>
    ELSE IF Has(tokens[i], "=") THEN <<i>> \o KeywordPositions(tokens, i + 1)
    ELSE KeywordPositions(tokens, i + 1)

\* The run of tokens without "=" that begins at position i
RECURSIVE RunFrom(_, _)
RunFrom(tokens, i) ==
    IF i > Len(tokens) \/ Has(tokens[i], "=") THEN <<>>
    ELSE <<tokens[i]>> \o RunFrom(tokens, i + 1)

\* What a run adds to the keyword token before it
Continuation(run) ==
    IF run = <<>> THEN <<>>
    ELSE IF \E i \in 1..Len(run) : Has(run[i], ")") \/ Has(run[i], "}")
         THEN <<",">> \o Join(<<",">>, run)
    ELSE Concat(run)

RefGrouped(tokens) ==
    [k \in 1..Len(KeywordPositions(tokens, 1)) |->
        tokens[KeywordPositions(tokens, 1)[k]]
            \o Continuation(RunFrom(tokens, KeywordPositions(tokens, 1)[k] + 1))]

\* C14: the regrouping keeps the keyword tokens in number and order, and
\* appends every run of tokens without "=" to the keyword token just before
\* it and to no other: joined by commas and prefixed by a comma when a token
\* of the run holds ")" or "}", joined with no separator otherwise.
C14_RunsAppendedToLastKeyword ==
    (op = "todict.grouped" /\ raised = "none") =>
        /\ Len(ret) = Cardinality({i \in 1..Len(arg) : Has(arg[i], "=")})
        /\ ret = RefGrouped(arg)

\* y=(1  2  3)  x=1: the run 2, 3) goes to y=(1 with commas, x=1 is untouched
C14_Witness ==
    /\ op = "todict.grouped"
    /\ arg = <<<<"y", "=", "(", "1">>, <<"2">>, <<"3", ")">>, <<"x", "=", "1">>>>
    /\ ret = <<<<"y", "=", "(", "1", ",", "2", ",", "3", ")">>, <<"x", "=", "1">>>>

-----------------------------------------------------------------------------
(* Parser.collect_tokens on a flat parse result, and again on its own      *)
(* output.                                                                 *)

MaxFlatTokens == 3

\* x=1  ,  ,y=2  y=2,  ,,z=3  ,,
CommaTokens ==
    {<<"x", "=", "1">>, <<",">>, <<",", "y", "=", "2">>, <<"y", "=", "2", ",">>,
     <<",", ",", "z", "=", "3">>, <<",", ",">>}

\* parseresult.asList() for a flat list of tokens
AsList(tokens) == [i \in 1..Len(tokens) |-> Tok(tokens[i])]

InitCollect ==
    /\ InitCommon
    /\ arg \in SeqUpTo(CommaTokens, MaxFlatTokens)

CollectTokens ==
    /\ op = "none"
    /\ \E r \in {collect_tokens(AsList(arg), "parens")} :
          /\ op' = "collect_tokens"
          /\ ret' = r.tokens
          /\ raised' = r.raised
    /\ UNCHANGED <<arg, ns, warnings, namespace, abort_on_eval_failure>>

\* The second pass, on the output of the first
CollectTokensAgain ==
    /\ op = "collect_tokens"
    /\ raised = "none"
    /\ \E r \in {collect_tokens(AsList(ret), "parens")} :
          /\ op' = "collect_tokens again"
          /\ arg' = ret
          /\ ret' = r.tokens
          /\ raised' = r.raised
    /\ UNCHANGED <<ns, warnings, namespace, abort_on_eval_failure>>

NextCollect == CollectTokens \/ CollectTokensAgain

SpecCollect == InitCollect /\ [][NextCollect]_vars

\* The tokens of the list that are not a bare comma, in order
RECURSIVE Kept(_)
Kept(tokens) ==
    IF tokens = <<>> THEN <<>>
    ELSE IF Head(tokens) = <<",">> THEN Kept(Tail(tokens))
    ELSE <<Head(tokens)>> \o Kept(Tail(tokens))

\* Whether part occurs in text as a run of adjacent symbols
Within(part, text) ==
    \E i \in 1..(Len(text) + 1) :
        i + Len(part) - 1 <= Len(text) /\ SubSeq(text, i, i + Len(part) - 1) = part

\* C15: on a flat sequence of non-empty tokens collect_tokens keeps the
\* tokens that are not a bare comma, in their order, each without its
\* leading and trailing commas; and a second pass over the output of the
\* first returns that output unchanged.
C15_CollectTokensIdempotent ==
    /\ (op = "collect_tokens" /\ raised = "none") =>
          /\ Len(ret) = Len(Kept(arg))
          /\ \A k \in 1..Len(ret) : Within(ret[k], Kept(arg)[k])
    /\ op = "collect_tokens again" => (raised = "none" /\ ret = arg)

-----------------------------------------------------------------------------
(* OptsSpec.parse on lines that name a deprecated element and the element  *)
(* that replaces it.                                                       *)

DeprecatedPaths == {T("GridImage"), T("Image"), T("Curve")}

DeprecatedGroups == [pathspec : DeprecatedPaths, block : DOMAIN PathBlocks]

InitRewrite ==
    /\ InitCommon
    /\ arg \in {l \in SeqUpTo(DeprecatedGroups, MaxPathGroups) : Len(l) >= 1}

RewriteParse ==
    /\ op = "none"
    /\ \E iter \in Orders({arg[i].pathspec : i \in 1..Len(arg)}) :
          \E r \in {OptsSpec_parse(RenderPaths(arg), ns, namespace,
                                   abort_on_eval_failure, iter)} :
              /\ op' = "OptsSpec.parse"
              /\ ret' = [parse |-> r.parse, out |-> r.out]
              /\ raised' = r.raised
              /\ warnings' = r.warnings
              /\ namespace' = r.namespace
              /\ ns' = r.ns
    /\ UNCHANGED <<arg, abort_on_eval_failure>>

NextRewrite == RewriteParse

SpecRewrite == InitRewrite /\ [][NextRewrite]_vars

\* C16: every option assigned to an input path is in the output under the
\* rewritten key of the path, with its value, also when two input paths are
\* rewritten to the same key.
C16_NoOptionLostByRewrite ==
    (op = "OptsSpec.parse" /\ raised = "none") =>
        \A path \in DOMAIN ret.parse :
            \A t \in DOMAIN ret.parse[path] :
                \A k \in DOMAIN ret.parse[path][t] :
                    /\ apply_deprecations(path).path \in DOMAIN ret.out
                    /\ t \in DOMAIN ret.out[apply_deprecations(path).path]
                    /\ k \in DOMAIN ret.out[apply_deprecations(path).path][t]
                    /\ ret.out[apply_deprecations(path).path][t][k]
                          = ret.parse[path][t][k]

-----------------------------------------------------------------------------
(* Parser.todict on the options blocks nestedExpr accepts: keywords,       *)
(* values without a keyword, and nested groups, in any order.              *)

MaxElements == 3

\* x=1  y=  2  (1,2)
BlockElements ==
    {<<"x", "=", "1">>, <<"y", "=">>, <<"2">>, <<"(", "1", ",", "2", ")">>}

\* arg lists the elements of the block, which are separated by spaces
InitBlock ==
    /\ InitCommon
    /\ arg \in SeqUpTo(BlockElements, MaxElements)

BlockTodict ==
    /\ op = "none"
    /\ \E r \in {todict(nestedExpr(Join(<<" ">>, arg), "(", ")"), "parens", ns,
                        namespace, abort_on_eval_failure)} :
          /\ op' = "todict"
          /\ ret' = r.kwargs
          /\ raised' = r.raised
          /\ warnings' = r.warnings
          /\ namespace' = r.namespace
          /\ ns' = r.ns
    /\ UNCHANGED <<arg, abort_on_eval_failure>>

NextBlock == BlockTodict

SpecBlock == InitBlock /\ [][NextBlock]_vars

\* C17: for every options block the grammar accepts, todict and
\* collect_tokens return a result or raise SyntaxError, and fail in no other
\* way, also when the block begins with a token without "=" or with a
\* nested group.
C17_OnlySyntaxErrors ==
    op = "todict" => raised \in {"none", "SyntaxError"}

=============================================================================
